---- MODULE Spec2Model ----
(***************************************************************************)
(* A model of the two example scripts of offline-function-calling/sdk.     *)
(*                                                                         *)
(*   examples/hello-world.py    main() and chat(): one chat request, code  *)
(*                              block extraction, sandbox runs, follow-up  *)
(*                              chat request.                              *)
(*   examples/using-the-sdk.py  main(): the read / send / parse / execute  *)
(*                              loop over the SDK's call surface.          *)
(*                                                                         *)
(* A text (a Python str) is the non-empty sequence of its lines, the lines *)
(* being the pieces between "\n"; the empty str is <<"">>.  Every await of *)
(* the scripts is two steps, the issue of the external operation and its   *)
(* completion, so that the operations in flight are part of the state.     *)
(***************************************************************************)
EXTENDS Naturals, Sequences, FiniteSets

VARIABLES
    pc,              \* hello-world.py: position of main() / chat()
    round,           \* which call of chat() is running: 0 none, 1 line 47, 2 line 80
    messages,        \* main.messages: the transcript
    response,        \* main.response: the last value chat() returned
    function_calls,  \* main.function_calls
    responses,       \* main.responses
    idx,             \* position of `for call in function_calls` (1-based)
    runner,          \* the handle sandbox.run(call) returned: its stdout and stderr
    output,          \* main.output
    errors,          \* main.errors
    sandbox,         \* PythonSandbox lifecycle: none, created, started, stopped
    session,         \* ClientSession lifecycle: none, open, closed
    inflight,        \* external operations issued and not yet completed
    failed,          \* the operation whose exception ended main(), or "none"
    requests,        \* history: the messages of every POST sent to /api/chat
    replies,         \* history: the content of every reply of the endpoint
    executed,        \* history: the code of every sandbox.run issued
    results,         \* history: [output, error] of every function call run
    steps,           \* history: the pipeline steps in the order they happened
    spc,             \* using-the-sdk.py: position of main()
    task,            \* using-the-sdk.py: main.task
    stream,          \* using-the-sdk.py: the parts of main.stream not yet consumed
    sresponse,       \* using-the-sdk.py: main.response
    message,         \* using-the-sdk.py: main.message
    soutputs,        \* using-the-sdk.py: main.outputs
    trail            \* history: what using-the-sdk.py did since its last loop test

hvars == <<pc, round, messages, response, function_calls, responses, idx, runner,
           output, errors, sandbox, session, inflight, failed, requests, replies,
           executed, results, steps>>
svars == <<spc, task, stream, sresponse, message, soutputs, trail>>
vars == <<hvars, svars>>

-----------------------------------------------------------------------------
(* Bounds of the model.                                                    *)

\* The most segments (prose lines, fenced blocks) a first reply is built from.
MaxSegments == 3
\* The most function calls one parsed SDK message carries.
MaxCalls == 2

-----------------------------------------------------------------------------
(* Texts.                                                                  *)

EmptyText == <<"">>

\* Python truthiness of a str.
Truthy(t) == t # EmptyText

IsPrefix(s, t) == Len(s) <= Len(t) /\ SubSeq(t, 1, Len(s)) = s

\* "\n\n".join(texts)
RECURSIVE Join(_)
Join(texts) ==
    IF Len(texts) = 0 THEN EmptyText
    ELSE IF Len(texts) = 1 THEN texts[1]
    ELSE texts[1] \o <<"">> \o Join(Tail(texts))

Instruction == <<"instruction">>
Discovery == <<"discovery">>
Task == <<"task">>
FunctionCode == <<"import requests", "def fetch_weather(place: str) -> dict:">>

Message(role, content) == [role |-> role, content |-> content]

InitialMessages ==
    << Message("user", Instruction), Message("user", Discovery), Message("user", Task) >>

-----------------------------------------------------------------------------
(* find_code_blocks, on the lines of the reply.  A fence opens on a line   *)
(* of three backticks with an optional class; the newlines after it are    *)
(* taken greedily, the content lazily, and the fence closes on the first   *)
(* later line that is the bare fence.  A string of this module cannot hold *)
(* a backtick: [fence] stands for the three backticks.                     *)

Fence == "[fence]"
FenceLines == {"[fence]", "[fence]python", "[fence]js"}

\* group("code_class"): None is "none"
CodeClass(line) ==
    IF line = "[fence]python" THEN "python" ELSE IF line = "[fence]js" THEN "js" ELSE "none"

\* The first line after the opener that \n+ cannot swallow.
FirstNonBlank(text, i) ==
    IF \E k \in (i + 1)..Len(text) : text[k] # ""
    THEN CHOOSE k \in (i + 1)..Len(text) :
            text[k] # "" /\ \A h \in (i + 1)..(k - 1) : text[h] = ""
    ELSE Len(text) + 1

Closers(text, k) == {j \in (k + 1)..Len(text) : text[j] = Fence}

MinOf(S) == CHOOSE j \in S : \A h \in S : j <= h

\* The last line of the content: trailing blank lines belong to \n+.
LastNonBlank(text, k, j) ==
    CHOOSE m \in k..(j - 1) : text[m] # "" /\ \A h \in (m + 1)..(j - 1) : text[h] = ""

\* The match that opens on line i: [found, class, content, close].
MatchAt(text, i) ==
    LET k == FirstNonBlank(text, i) IN
    IF text[i] \notin FenceLines
    THEN [found |-> FALSE, class |-> "none", content |-> EmptyText, close |-> i]
    ELSE IF Closers(text, k) # {}
    THEN LET j == MinOf(Closers(text, k)) IN
         [found |-> TRUE, class |-> CodeClass(text[i]),
          content |-> SubSeq(text, k, LastNonBlank(text, k, j)), close |-> j]
    ELSE IF k <= Len(text) /\ text[k] = Fence /\ k >= i + 2
    THEN [found |-> TRUE, class |-> CodeClass(text[i]), content |-> EmptyText, close |-> k]
    ELSE [found |-> FALSE, class |-> "none", content |-> EmptyText, close |-> i]

\* code_block_regex.finditer(response), from line i on
RECURSIVE FindFrom(_, _)
FindFrom(text, i) ==
    IF i > Len(text) THEN <<>>
    ELSE LET m == MatchAt(text, i) IN
         IF m.found
         THEN <<[class |-> m.class, content |-> m.content]>> \o FindFrom(text, m.close + 1)
         ELSE FindFrom(text, i + 1)

FindCodeBlocks(text) == FindFrom(text, 1)

\* if match.group("code_class") == "python"
IsFunctionCall(block) == block.class = "python"

\* the loop of lines 53-56
RECURSIVE SelectCalls(_)
SelectCalls(blocks) ==
    IF blocks = <<>> THEN <<>>
    ELSE (IF IsFunctionCall(blocks[1]) THEN <<blocks[1].content>> ELSE <<>>)
         \o SelectCalls(Tail(blocks))

-----------------------------------------------------------------------------
(* What the environment can answer.                                        *)

Segments ==
    { <<"It is sunny.">>,
      <<"[fence]python", "f()", "[fence]">>,
      <<"[fence]python", "", "g()", "", "[fence]">>,
      <<"[fence]js", "f()", "[fence]">>,
      <<"[fence]", "g()", "[fence]">>,
      <<"[fence]python", "f()">> }

RECURSIVE SegmentLines(_)
SegmentLines(n) ==
    IF n = 0 THEN {<<>>}
    ELSE LET shorter == SegmentLines(n - 1) IN
         shorter \cup {s \o seg : s \in shorter, seg \in Segments}

AsText(lines) == IF lines = <<>> THEN EmptyText ELSE lines

\* The contents the endpoint can answer the first request with.
Replies == {AsText(s) : s \in SegmentLines(MaxSegments)}
\* The contents the endpoint can answer the follow-up request with.
FollowUpReplies ==
    {<<"It is sunny.">>, <<"[fence]python", "f()", "[fence]">>}

Stdouts == {EmptyText, <<"{units: metric}">>}
Stderrs == {EmptyText, <<"Traceback", "KeyError">>}

-----------------------------------------------------------------------------
(* hello-world.py                                                          *)

HelloInit ==
    /\ pc = "main"
    /\ round = 0
    /\ messages = <<>>
    /\ response = EmptyText
    /\ function_calls = <<>>
    /\ responses = <<>>
    /\ idx = 0
    /\ runner = [output |-> EmptyText, error |-> EmptyText]
    /\ output = EmptyText
    /\ errors = EmptyText
    /\ sandbox = "none"
    /\ session = "none"
    /\ inflight = {}
    /\ failed = "none"
    /\ requests = <<>>
    /\ replies = <<>>
    /\ executed = <<>>
    /\ results = <<>>
    /\ steps = <<>>

\* lines 32-45: the transcript and the HTTP session
MainSetup ==
    /\ pc = "main"
    /\ messages' = InitialMessages
    /\ session' = "open"
    /\ pc' = "call_chat"
    /\ round' = 1
    /\ UNCHANGED <<svars, response, function_calls, responses, idx, runner, output, errors,
                   sandbox, inflight, failed, requests, replies, executed, results, steps>>

\* lines 9-20: the payload holds the caller's list; session.post sends it
ChatPostTruncated ==
    /\ pc = "call_chat"
    /\ requests' = Append(requests, SubSeq(messages, Len(messages), Len(messages)))
    /\ inflight' = inflight \cup {"chat"}
    /\ steps' = Append(steps, "request")
    /\ pc' = "chat_wait"
    /\ UNCHANGED <<svars, round, messages, response, function_calls, responses, idx, runner,
                   output, errors, sandbox, session, failed, replies, executed, results>>

ChatPost ==
    /\ pc = "call_chat"
    /\ requests' = Append(requests, messages)
    /\ inflight' = inflight \cup {"chat"}
    /\ steps' = Append(steps, "request")
    /\ pc' = "chat_wait"
    /\ UNCHANGED <<svars, round, messages, response, function_calls, responses, idx, runner,
                   output, errors, sandbox, session, failed, replies, executed, results>>

\* lines 21-29 and the return to line 48 or line 81
ChatReturnLoops ==
    /\ pc = "chat_wait"
    /\ \E content \in (IF round = 1 THEN Replies ELSE FollowUpReplies) :
          /\ messages' = Append(messages, Message("assistant", content))
          /\ response' = content
          /\ replies' = Append(replies, content)
    /\ inflight' = inflight \ {"chat"}
    /\ steps' = Append(steps, "reply")
    /\ pc' = "extract"
    /\ round' = 0
    /\ UNCHANGED <<svars, function_calls, responses, idx, runner, output, errors, sandbox,
                   session, failed, requests, executed, results>>

ChatReturn ==
    /\ pc = "chat_wait"
    /\ \E content \in (IF round = 1 THEN Replies ELSE FollowUpReplies) :
          /\ messages' = Append(messages, Message("assistant", content))
          /\ response' = content
          /\ replies' = Append(replies, content)
    /\ inflight' = inflight \ {"chat"}
    /\ steps' = Append(steps, "reply")
    /\ pc' = IF round = 1 THEN "extract" ELSE "stop"
    /\ round' = 0
    /\ UNCHANGED <<svars, function_calls, responses, idx, runner, output, errors, sandbox,
                   session, failed, requests, executed, results>>

\* line 21: response.raise_for_status() raises, through chat() and main()
ChatRaiseRetries ==
    /\ pc = "chat_wait"
    /\ inflight' = inflight \ {"chat"}
    /\ pc' = "call_chat"
    /\ UNCHANGED <<svars, round, messages, response, function_calls, responses, idx, runner,
                   output, errors, sandbox, session, failed, requests, replies, executed,
                   results, steps>>

ChatRaise ==
    /\ pc = "chat_wait"
    /\ inflight' = inflight \ {"chat"}
    /\ failed' = "chat"
    /\ pc' = "raised"
    /\ UNCHANGED <<svars, round, messages, response, function_calls, responses, idx, runner,
                   output, errors, sandbox, session, requests, replies, executed,
                   results, steps>>

\* lines 50-57
ExtractAllBlocks ==
    /\ pc = "extract"
    /\ function_calls' = [i \in 1..Len(FindCodeBlocks(response)) |->
                             FindCodeBlocks(response)[i].content]
    /\ steps' = Append(steps, "extract")
    /\ pc' = "new_sandbox"
    /\ UNCHANGED <<svars, round, messages, response, responses, idx, runner, output, errors,
                   sandbox, session, inflight, failed, requests, replies, executed, results>>

Extract ==
    /\ pc = "extract"
    /\ function_calls' = SelectCalls(FindCodeBlocks(response))
    /\ steps' = Append(steps, "extract")
    /\ pc' = "new_sandbox"
    /\ UNCHANGED <<svars, round, messages, response, responses, idx, runner, output, errors,
                   sandbox, session, inflight, failed, requests, replies, executed, results>>

\* lines 59-62
NewSandbox ==
    /\ pc = "new_sandbox"
    /\ sandbox' = "created"
    /\ pc' = "start"
    /\ UNCHANGED <<svars, round, messages, response, function_calls, responses, idx, runner,
                   output, errors, session, inflight, failed, requests, replies, executed,
                   results, steps>>

\* line 64: await sandbox.start()
StartIssue ==
    /\ pc = "start"
    /\ inflight' = inflight \cup {"sandbox.start"}
    /\ pc' = "start_wait"
    /\ UNCHANGED <<svars, round, messages, response, function_calls, responses, idx, runner,
                   output, errors, sandbox, session, failed, requests, replies, executed,
                   results, steps>>

StartDone ==
    /\ pc = "start_wait"
    /\ inflight' = inflight \ {"sandbox.start"}
    /\ sandbox' = "started"
    /\ pc' = "define"
    /\ UNCHANGED <<svars, round, messages, response, function_calls, responses, idx, runner,
                   output, errors, session, failed, requests, replies, executed, results,
                   steps>>

\* line 65: await sandbox.run(function_code)
DefineIssue ==
    /\ pc = "define"
    /\ inflight' = inflight \cup {"sandbox.run"}
    /\ executed' = Append(executed, FunctionCode)
    /\ pc' = "define_wait"
    /\ UNCHANGED <<svars, round, messages, response, function_calls, responses, idx, runner,
                   output, errors, sandbox, session, failed, requests, replies, results,
                   steps>>

\* line 65 completes; line 67 and the first test of line 68
DefineDone ==
    /\ pc = "define_wait"
    /\ inflight' = inflight \ {"sandbox.run"}
    /\ responses' = <<>>
    /\ idx' = 1
    /\ pc' = "for_call"
    /\ UNCHANGED <<svars, round, messages, response, function_calls, runner, output, errors,
                   sandbox, session, failed, requests, replies, executed, results, steps>>

\* lines 68-69: the next call, await sandbox.run(call)
RunIssue ==
    /\ pc = "for_call"
    /\ idx <= Len(function_calls)
    /\ inflight' = inflight \cup {"sandbox.run"}
    /\ executed' = Append(executed, function_calls[idx])
    /\ steps' = Append(steps, "run")
    /\ pc' = "run_wait"
    /\ UNCHANGED <<svars, round, messages, response, function_calls, responses, idx, runner,
                   output, errors, sandbox, session, failed, requests, replies, results>>

\* line 69 completes: the runner holds what the call printed
RunDoneDetached ==
    /\ pc = "run_wait"
    /\ \E out \in Stdouts, err \in Stderrs :
          /\ runner' = [output |-> out, error |-> err]
          /\ results' = Append(results, runner')
    /\ pc' = "read_output"
    /\ UNCHANGED <<svars, round, messages, response, function_calls, responses, idx, output,
                   errors, sandbox, session, inflight, failed, requests, replies, executed,
                   steps>>

RunDone ==
    /\ pc = "run_wait"
    /\ inflight' = inflight \ {"sandbox.run"}
    /\ \E out \in Stdouts, err \in Stderrs :
          /\ runner' = [output |-> out, error |-> err]
          /\ results' = Append(results, runner')
    /\ pc' = "read_output"
    /\ UNCHANGED <<svars, round, messages, response, function_calls, responses, idx, output,
                   errors, sandbox, session, failed, requests, replies, executed, steps>>

\* line 71: await runner.output()
OutputIssue ==
    /\ pc = "read_output"
    /\ inflight' = inflight \cup {"runner.output"}
    /\ pc' = "output_wait"
    /\ UNCHANGED <<svars, round, messages, response, function_calls, responses, idx, runner,
                   output, errors, sandbox, session, failed, requests, replies, executed,
                   results, steps>>

OutputDone ==
    /\ pc = "output_wait"
    /\ inflight' = inflight \ {"runner.output"}
    /\ output' = runner.output
    /\ pc' = "read_error"
    /\ UNCHANGED <<svars, round, messages, response, function_calls, responses, idx, runner,
                   errors, sandbox, session, failed, requests, replies, executed, results,
                   steps>>

\* line 72: await runner.error()
ErrorIssue ==
    /\ pc = "read_error"
    /\ inflight' = inflight \cup {"runner.error"}
    /\ pc' = "error_wait"
    /\ UNCHANGED <<svars, round, messages, response, function_calls, responses, idx, runner,
                   output, errors, sandbox, session, failed, requests, replies, executed,
                   results, steps>>

ErrorDone ==
    /\ pc = "error_wait"
    /\ inflight' = inflight \ {"runner.error"}
    /\ errors' = runner.error
    /\ pc' = "append"
    /\ UNCHANGED <<svars, round, messages, response, function_calls, responses, idx, runner,
                   output, sandbox, session, failed, requests, replies, executed, results,
                   steps>>

\* line 74, and back to line 68
AppendResponseStdoutFirst ==
    /\ pc = "append"
    /\ responses' = Append(responses, IF Truthy(output) THEN output ELSE errors)
    /\ idx' = idx + 1
    /\ pc' = "for_call"
    /\ UNCHANGED <<svars, round, messages, response, function_calls, runner, output, errors,
                   sandbox, session, inflight, failed, requests, replies, executed, results,
                   steps>>

AppendResponse ==
    /\ pc = "append"
    /\ responses' = Append(responses, IF Truthy(errors) THEN errors ELSE output)
    /\ idx' = idx + 1
    /\ pc' = "for_call"
    /\ UNCHANGED <<svars, round, messages, response, function_calls, runner, output, errors,
                   sandbox, session, inflight, failed, requests, replies, executed, results,
                   steps>>

\* line 68 exhausted; lines 76-79, and the call of chat() on line 80
CollectOverwrites ==
    /\ pc = "for_call"
    /\ idx > Len(function_calls)
    /\ messages' = [messages EXCEPT ![Len(messages)] = Message("user", Join(responses))]
    /\ steps' = Append(steps, "collect")
    /\ round' = 2
    /\ pc' = "call_chat"
    /\ UNCHANGED <<svars, response, function_calls, responses, idx, runner, output, errors,
                   sandbox, session, inflight, failed, requests, replies, executed, results>>

Collect ==
    /\ pc = "for_call"
    /\ idx > Len(function_calls)
    /\ messages' = Append(messages, Message("user", Join(responses)))
    /\ steps' = Append(steps, "collect")
    /\ round' = 2
    /\ pc' = "call_chat"
    /\ UNCHANGED <<svars, response, function_calls, responses, idx, runner, output, errors,
                   sandbox, session, inflight, failed, requests, replies, executed, results>>

\* lines 64, 65, 69: the sandbox call raises, through main()
SandboxRaise ==
    /\ pc \in {"start_wait", "define_wait", "run_wait"}
    /\ inflight' = inflight \ {"sandbox.start", "sandbox.run"}
    /\ failed' = "sandbox"
    /\ pc' = "raised"
    /\ UNCHANGED <<svars, round, messages, response, function_calls, responses, idx, runner,
                   output, errors, sandbox, session, requests, replies, executed, results,
                   steps>>

\* line 83: await sandbox.stop()
StopIssue ==
    /\ pc = "stop"
    /\ inflight' = inflight \cup {"sandbox.stop"}
    /\ pc' = "stop_wait"
    /\ UNCHANGED <<svars, round, messages, response, function_calls, responses, idx, runner,
                   output, errors, sandbox, session, failed, requests, replies, executed,
                   results, steps>>

StopDone ==
    /\ pc = "stop_wait"
    /\ inflight' = inflight \ {"sandbox.stop"}
    /\ sandbox' = "stopped"
    /\ pc' = "close"
    /\ UNCHANGED <<svars, round, messages, response, function_calls, responses, idx, runner,
                   output, errors, session, failed, requests, replies, executed, results,
                   steps>>

\* line 84: await session.close()
CloseIssue ==
    /\ pc = "close"
    /\ inflight' = inflight \cup {"session.close"}
    /\ pc' = "close_wait"
    /\ UNCHANGED <<svars, round, messages, response, function_calls, responses, idx, runner,
                   output, errors, sandbox, session, failed, requests, replies, executed,
                   results, steps>>

CloseDone ==
    /\ pc = "close_wait"
    /\ inflight' = inflight \ {"session.close"}
    /\ session' = "closed"
    /\ pc' = "done"
    /\ UNCHANGED <<svars, round, messages, response, function_calls, responses, idx, runner,
                   output, errors, sandbox, failed, requests, replies, executed, results,
                   steps>>

-----------------------------------------------------------------------------
(* using-the-sdk.py.  Model, send_message, parse_response and              *)
(* execute_calls are the SDK's; what they return is the environment's      *)
(* choice.                                                                 *)

Tasks == {"weather?", "time?"}
Parts == {"It is ", "sunny"}
Streams == {<<p>> : p \in Parts} \cup {<<p, q>> : p \in Parts, q \in Parts}
CallNames == {"f", "g"}
Outputs == {"out1", "out2"}
PlainResponses == {<<"r1">>, <<"r2">>}

RECURSIVE CallSeqs(_)
CallSeqs(n) ==
    IF n = 0 THEN {<<>>}
    ELSE LET shorter == CallSeqs(n - 1) IN
         shorter \cup {Append(s, c) : s \in shorter, c \in CallNames}

\* What model.parse_response can return.
ParsedMessages ==
    {[function_calls |-> calls, contents |-> c] :
        calls \in CallSeqs(MaxCalls), c \in {"contents1", "contents2"}}

NoMessage == [function_calls |-> <<>>, contents |-> "none"]

Event(op, calls, text, streaming) ==
    [op |-> op, calls |-> calls, text |-> text, stream |-> streaming]

SdkInit ==
    /\ spc = "enter"
    /\ task = "none"
    /\ stream = <<>>
    /\ sresponse = <<>>
    /\ message = NoMessage
    /\ soutputs = "none"
    /\ trail = <<>>

\* lines 10-14: async with Model(...) as model
EnterModel ==
    /\ spc = "enter"
    /\ spc' = "input"
    /\ UNCHANGED <<hvars, task, stream, sresponse, message, soutputs, trail>>

\* lines 17-18: while True, task = input(...)
ReadTask ==
    /\ spc = "input"
    /\ \E t \in Tasks : task' = t
    /\ trail' = <<>>
    /\ spc' = "send"
    /\ UNCHANGED <<hvars, stream, sresponse, message, soutputs>>

\* lines 20 and 23: stream = await model.send_message(task, stream=True)
SendTask ==
    /\ spc = "send"
    /\ \E parts \in Streams : stream' = parts
    /\ sresponse' = <<>>
    /\ trail' = Append(trail, Event("send", <<>>, task, TRUE))
    /\ spc' = "for_part"
    /\ UNCHANGED <<hvars, task, message, soutputs>>

\* lines 24-26: print(part), response += part
ConsumePart ==
    /\ spc = "for_part"
    /\ stream # <<>>
    /\ sresponse' = Append(sresponse, Head(stream))
    /\ stream' = Tail(stream)
    /\ UNCHANGED <<hvars, spc, task, message, soutputs, trail>>

\* line 24 exhausted; line 29: message = model.parse_response(response)
ParseResponse ==
    /\ spc = "for_part"
    /\ stream = <<>>
    /\ \E m \in ParsedMessages : message' = m
    /\ trail' = Append(trail, Event("parse", <<>>, "", FALSE))
    /\ spc' = "while"
    /\ UNCHANGED <<hvars, task, stream, sresponse, soutputs>>

\* line 30: while message.function_calls.length > 0, taken
EnterLoopAlways ==
    /\ spc = "while"
    /\ trail' = <<Event("test", message.function_calls, "", FALSE)>>
    /\ spc' = "execute"
    /\ UNCHANGED <<hvars, task, stream, sresponse, message, soutputs>>

EnterLoop ==
    /\ spc = "while"
    /\ Len(message.function_calls) > 0
    /\ trail' = <<Event("test", message.function_calls, "", FALSE)>>
    /\ spc' = "execute"
    /\ UNCHANGED <<hvars, task, stream, sresponse, message, soutputs>>

\* line 30, not taken: on to line 37
LeaveLoopEarly ==
    /\ spc = "while"
    /\ Len(message.function_calls) <= 1
    /\ trail' = <<Event("test", message.function_calls, "", FALSE)>>
    /\ spc' = "final"
    /\ UNCHANGED <<hvars, task, stream, sresponse, message, soutputs>>

LeaveLoop ==
    /\ spc = "while"
    /\ ~(Len(message.function_calls) > 0)
    /\ trail' = <<Event("test", message.function_calls, "", FALSE)>>
    /\ spc' = "final"
    /\ UNCHANGED <<hvars, task, stream, sresponse, message, soutputs>>

\* line 31: outputs = await model.execute_calls(message.function_calls)
ExecuteCalls ==
    /\ spc = "execute"
    /\ \E o \in Outputs : soutputs' = o
    /\ trail' = Append(trail, Event("execute", message.function_calls, "", FALSE))
    /\ spc' = "send_outputs"
    /\ UNCHANGED <<hvars, task, stream, sresponse, message>>

\* line 32: response = await model.send_message(outputs, stream=False)
SendOutputs ==
    /\ spc = "send_outputs"
    /\ \E r \in PlainResponses : sresponse' = r
    /\ trail' = Append(trail, Event("send", <<>>, soutputs, FALSE))
    /\ spc' = "reparse"
    /\ UNCHANGED <<hvars, task, stream, message, soutputs>>

\* line 33: message = model.parse_response(response)
Reparse ==
    /\ spc = "reparse"
    /\ \E m \in ParsedMessages : message' = m
    /\ trail' = Append(trail, Event("parse", <<>>, "", FALSE))
    /\ spc' = "print"
    /\ UNCHANGED <<hvars, task, stream, sresponse, soutputs>>

\* line 34: print(message.contents), and back to line 30
PrintContents ==
    /\ spc = "print"
    /\ trail' = Append(trail, Event("print", <<>>, message.contents, FALSE))
    /\ spc' = "while"
    /\ UNCHANGED <<hvars, task, stream, sresponse, message, soutputs>>

\* line 37: print(message.contents), and back to line 17
PrintFinalExits ==
    /\ spc = "final"
    /\ trail' = Append(trail, Event("final", <<>>, message.contents, FALSE))
    /\ spc' = "exit"
    /\ UNCHANGED <<hvars, task, stream, sresponse, message, soutputs>>

PrintFinal ==
    /\ spc = "final"
    /\ trail' = Append(trail, Event("final", <<>>, message.contents, FALSE))
    /\ spc' = "input"
    /\ UNCHANGED <<hvars, task, stream, sresponse, message, soutputs>>

-----------------------------------------------------------------------------
(* The specifications.                                                     *)

Init == HelloInit /\ SdkInit

HelloNext ==
    \/ MainSetup
    \/ ChatPost
    \/ ChatReturn
    \/ ChatRaise
    \/ Extract
    \/ NewSandbox
    \/ StartIssue
    \/ StartDone
    \/ DefineIssue
    \/ DefineDone
    \/ RunIssue
    \/ RunDone
    \/ OutputIssue
    \/ OutputDone
    \/ ErrorIssue
    \/ ErrorDone
    \/ AppendResponse
    \/ Collect
    \/ SandboxRaise
    \/ StopIssue
    \/ StopDone
    \/ CloseIssue
    \/ CloseDone

SdkNext ==
    \/ EnterModel
    \/ ReadTask
    \/ SendTask
    \/ ConsumePart
    \/ ParseResponse
    \/ EnterLoop
    \/ LeaveLoop
    \/ ExecuteCalls
    \/ SendOutputs
    \/ Reparse
    \/ PrintContents
    \/ PrintFinal

\* python examples/hello-world.py
Next == HelloNext
Spec == Init /\ [][Next]_vars

\* python examples/using-the-sdk.py
NextSdk == SdkNext
SpecSdk == Init /\ [][NextSdk]_vars

-----------------------------------------------------------------------------
(* Properties of hello-world.py, checked under Spec.                       *)

Repeat(x, n) == [i \in 1..n |-> x]

\* The steps of a whole run that executes n function calls.
PipelineSteps(n) ==
    <<"request", "reply", "extract">> \o Repeat("run", n) \o <<"collect", "request", "reply">>

\* C1: a run in which no external call fails goes through first request,
\* reply, extraction, the sandbox runs of the extracted calls, collection and
\* follow-up request, once each and in this order; two requests are sent in
\* all, and the blocks of the follow-up reply are neither extracted nor run.
LinearPipeline ==
    /\ Len(requests) <= 2
    /\ IsPrefix(steps, PipelineSteps(Len(function_calls)))
    /\ Len(replies) = 2 => executed = <<FunctionCode>> \o function_calls
    /\ pc = "done" =>
          /\ failed = "none"
          /\ steps = PipelineSteps(Len(function_calls))
          /\ function_calls = SelectCalls(FindCodeBlocks(replies[1]))

LinearPipelineWitness ==
    /\ pc = "done"
    /\ Len(function_calls) = 2
    /\ FindCodeBlocks(replies[2]) # <<>>

\* C2: every step leaves the transcript as it was or extends it at the end.
TranscriptAppendOnly == [][IsPrefix(messages, messages')]_vars

TranscriptAppendOnlyWitness ==
    /\ pc = "done"
    /\ Len(messages) = 6
    /\ Len(responses) = 2

\* responses, as the outputs and errors the sandbox returned determine it
ExpectedResponses ==
    [i \in 1..Len(results) |->
        IF results[i].error # EmptyText THEN results[i].error ELSE results[i].output]

\* C3: the first request carries the three initial user messages; the second
\* carries those, the first assistant reply and the user message of the
\* sandbox outputs; a request in flight carries the transcript as it stands.
RequestsCarryTranscript ==
    /\ Len(requests) >= 1 => requests[1] = InitialMessages
    /\ Len(requests) >= 2 =>
          requests[2] = InitialMessages \o
                        << Message("assistant", replies[1]),
                           Message("user", Join(ExpectedResponses)) >>
    /\ pc = "chat_wait" => requests[Len(requests)] = messages

RequestsCarryTranscriptWitness ==
    /\ pc = "chat_wait"
    /\ Len(requests) = 2
    /\ Len(results) = 2

RolesKnown == \A i \in 1..Len(messages) : messages[i].role \in {"user", "assistant"}

\* The messages main() builds: the initial three and the sandbox outputs.
UserContentsNonEmpty ==
    \A i \in 1..Len(messages) :
        messages[i].role = "user" => messages[i].content # EmptyText

\* The messages chat() appends.
AssistantContentsNonEmpty ==
    \A i \in 1..Len(messages) :
        messages[i].role = "assistant" => messages[i].content # EmptyText

\* C4: every message of the transcript has role user or assistant and a
\* content that is not the empty text.
ContentsNonEmpty == RolesKnown /\ UserContentsNonEmpty /\ AssistantContentsNonEmpty

\* The contents of the blocks a reply holds, whatever their class.
RECURSIVE Contents(_)
Contents(blocks) ==
    IF blocks = <<>> THEN <<>> ELSE <<blocks[1].content>> \o Contents(Tail(blocks))

\* The contents of the blocks of class python a reply holds.
RECURSIVE PythonContents(_)
PythonContents(blocks) ==
    IF blocks = <<>> THEN <<>>
    ELSE IF blocks[1].class = "python"
    THEN <<blocks[1].content>> \o PythonContents(Tail(blocks))
    ELSE PythonContents(Tail(blocks))

LoopOver == Len(steps) >= 4 /\ steps[Len(steps)] \in {"collect", "request", "reply"}

\* C5, as claimed: every block extracted from the first reply is run once, in
\* order, whatever its class.
EveryBlockExecuted ==
    LoopOver => Tail(executed) = Contents(FindCodeBlocks(replies[1]))

\* C5, amended: the blocks of class python of the first reply are run once
\* each, in the order of the reply, and no other block is run.
PythonBlocksExecuted ==
    /\ Len(executed) >= 1 =>
          IsPrefix(Tail(executed), PythonContents(FindCodeBlocks(replies[1])))
    /\ LoopOver => Tail(executed) = PythonContents(FindCodeBlocks(replies[1]))

PythonBlocksExecutedWitness ==
    /\ LoopOver
    /\ Tail(executed) = << <<"f()">>, <<"g()">> >>
    /\ Len(FindCodeBlocks(replies[1])) = 3

\* C6: a chat call that ends without a reply ends main(): the transcript is
\* as the request left it, nothing is sent again and no step follows.
ChatFailureEndsRun ==
    /\ [][(pc = "chat_wait" /\ replies' = replies) =>
             (pc' = "raised" /\ messages' = messages /\ requests' = requests)]_vars
    /\ [][pc # "raised"]_vars
    /\ [](failed = "chat" =>
             /\ pc = "raised"
             /\ messages = requests[Len(requests)]
             /\ Len(requests) = 1 =>
                   (steps = <<"request">> /\ executed = <<>> /\ sandbox = "none")
             /\ Len(requests) = 2 => sandbox = "started")

ChatFailureEndsRunWitness ==
    /\ failed = "chat"
    /\ Len(requests) = 1
    /\ messages = InitialMessages

\* C7: responses holds one entry per call run, in call order, the call's
\* stderr when that is not empty and its stdout otherwise; the follow-up user
\* message is these entries joined by a blank line.
ResponsesCollected ==
    /\ Len(results) <= Len(function_calls)
    /\ Len(responses) <= Len(results)
    /\ responses = SubSeq(ExpectedResponses, 1, Len(responses))
    /\ pc = "for_call" => Len(responses) = idx - 1 /\ Len(results) = idx - 1
    /\ Len(messages) >= 5 =>
          /\ Len(responses) = Len(function_calls)
          /\ messages[5] = Message("user", Join(ExpectedResponses))

ResponsesCollectedWitness ==
    /\ Len(messages) >= 5
    /\ Len(results) = 2
    /\ Truthy(results[1].error) /\ Truthy(results[1].output)
    /\ ~Truthy(results[2].error) /\ Truthy(results[2].output)

\* The positions of main() and chat() that issue an external operation.
IssuePositions ==
    {"call_chat", "start", "define", "for_call", "read_output", "read_error", "stop",
     "close"}

\* C8: at most one external operation is in flight, and none is when the
\* next one is issued.
OneOperationInFlight ==
    /\ Cardinality(inflight) <= 1
    /\ pc \in IssuePositions => inflight = {}
    /\ pc = "call_chat" /\ round = 2 => Len(results) = Len(function_calls)

OneOperationInFlightWitness ==
    /\ inflight = {"runner.error"}
    /\ idx = 2

\* C10: sandbox.run only between the completion of start and stop; stop only
\* after the follow-up reply; the session closed only after stop completed;
\* a run of main() that started the sandbox ends with it stopped and the
\* session closed.
SandboxLifecycle ==
    /\ "sandbox.run" \in inflight => sandbox = "started"
    /\ Len(executed) >= 1 => executed[1] = FunctionCode
    /\ Len(executed) >= 2 => pc # "define_wait"
    /\ ("sandbox.stop" \in inflight \/ sandbox = "stopped") => Len(replies) = 2
    /\ ("session.close" \in inflight \/ session = "closed") => sandbox = "stopped"
    /\ (pc \in {"done", "raised"} /\ sandbox \in {"started", "stopped"}) =>
          (sandbox = "stopped" /\ session = "closed")

-----------------------------------------------------------------------------
(* Properties of using-the-sdk.py, checked under SpecSdk.                  *)

\* C9: a response parsed with function calls has them executed, the outputs
\* sent without streaming and the new response parsed, in this order; the
\* loop is left, the final response printed and the next task read only on a
\* response parsed with no function call; the outer loop is never left.
ExecuteUntilNoCalls ==
    /\ spc # "exit"
    /\ spc = "execute" => Len(message.function_calls) > 0
    /\ spc = "final" =>
          /\ message.function_calls = <<>>
          /\ trail = <<Event("test", <<>>, "", FALSE)>>
    /\ (spc = "input" /\ trail # <<>>) =>
          /\ message.function_calls = <<>>
          /\ trail = << Event("test", <<>>, "", FALSE),
                        Event("final", <<>>, message.contents, FALSE) >>
    /\ (spc = "while" /\ trail[1].op = "test") =>
          /\ Len(trail) = 5
          /\ trail[1].calls # <<>>
          /\ trail[2] = Event("execute", trail[1].calls, "", FALSE)
          /\ trail[3] = Event("send", <<>>, soutputs, FALSE)
          /\ trail[4].op = "parse"
          /\ trail[5] = Event("print", <<>>, message.contents, FALSE)

ExecuteUntilNoCallsWitness ==
    /\ spc = "input"
    /\ trail # <<>>
    /\ sresponse \in PlainResponses

====
